---- MODULE Spec2Model ----
(***************************************************************************)
(* Model of src/tasks.py: the robot-order pipeline                          *)
(*   get_orders -> fill_the_form_and_store_receipts -> archive_receipts     *)
(* wrapped in try/finally with cleanup.  The remote web shop, the HTTP      *)
(* server, the file system and the PDF/ZIP libraries are the environment:   *)
(* their answers are chosen nondeterministically.                           *)
(***************************************************************************)
EXTENDS Integers, Sequences, FiniteSets, TLC

\* ---- program constant ---------------------------------------------------
MAX_RETRIES == 3

\* ---- bounds of the model ------------------------------------------------
MaxOrders == 2        \* rows in the downloaded order list: 0..MaxOrders
MaxIds == 2           \* order identifiers the shop may hand out: 1..MaxIds
MaxRejects == 4       \* finite number of rejected submits of one order
RecursionLimit == 6   \* frames of the retry helper the interpreter allows
MaxRuns == 2          \* runs of the task on the same file system

Always == -1          \* the shop rejects every submit of the order
NoOrder == 0          \* no identifier read yet

OrderIds == 1..MaxIds
\* final statuses of the GET: success, a redirection that is not followed,
\* client error, server error
HttpStatuses == {200, 300, 404, 500}

TEMP == "temp"
RECEIPTS == "temp/receipts"
IMAGES == "temp/receipts_images"
TempDirs == {TEMP, RECEIPTS, IMAGES}

VARIABLES
    pc,            \* position of the single thread of control
    runs,          \* runs of the task started so far
    http_status,   \* status of the response to the GET of this run (0: none)
    orders,        \* number of rows of the DataFrame returned by get_orders
    i,             \* index of the row the for loop is at (0: before the loop)
    pending,       \* exception propagating out of the try body, or "none"
    outcome,       \* how the task ended: "none" (returned) or the exception
    dirs,          \* directories that exist, among TempDirs
    files,         \* files that exist under temp
    zip,           \* what this run wrote to output/receipts.zip
    rowArg,        \* argument row of the current frame of the retry helper
    count,         \* argument count of the current frame of the retry helper
    depth,         \* frames of the retry helper on the stack
    clicks,        \* submit clicks made for the current order
    rejects,       \* the shop's behaviour for the current order
    helper,        \* "idle", "running", "returned", "raised"
    order_number,  \* identifier read from the badge for the current order
    browserUsed,   \* some browser interaction happened in this run
    archiveCalled, \* archive_receipts was invoked in this run
    archived,      \* archive_receipts completed in this run
    cleanupRuns,   \* calls of cleanup made by this run
    rmResult,      \* "none", "skipped", "ok", "failed": the run's rmtree
    logged,        \* log records written by this process
    startedClean,  \* temp did not exist when this run started
    succeeded,     \* rows of this run whose badge was read
    idsRead        \* identifiers read from the badge in this run

vars == <<pc, runs, http_status, orders, i, pending, outcome, dirs, files, zip, rowArg,
          count, depth, clicks, rejects, helper, order_number, browserUsed,
          archiveCalled, archived, cleanupRuns, rmResult, logged,
          startedClean, succeeded, idsRead>>

helperVars == <<rowArg, count, depth, clicks, rejects, helper>>
runVars == <<browserUsed, archiveCalled, archived, cleanupRuns, rmResult,
             startedClean, succeeded, idsRead>>

\* ---- file names ---------------------------------------------------------
File(d, n, o, e) == [dir |-> d, name |-> n, order |-> o, ext |-> e]

\* save_receipt_as_image: temp/receipts_images/robot_<order>.png
ImagePathShared(o) == File(IMAGES, "robot", NoOrder, "png")
ImagePath(o) == File(IMAGES, "robot", o, "png")

\* store_receipt_as_pdf: temp/receipts/receipt_<order>.pdf
PdfPath(o) == File(RECEIPTS, "receipt", o, "pdf")

\* store_receipt_as_pdf: temp/receipts/receipt_<order>_with_robot_image.pdf
PdfPathOverwritten(o) == File(RECEIPTS, "receipt", o, "pdf")
PdfPathWithRobotImage(o) == File(RECEIPTS, "receipt_with_robot_image", o, "pdf")

AllFiles == UNION {{ImagePath(o), PdfPath(o), PdfPathWithRobotImage(o)} :
                   o \in OrderIds}

\* a path is under a directory: the directory itself or, for temp, any
\* of its two children
IsUnder(d, root) == d = root \/ root = TEMP

\* os.makedirs(path, exist_ok=True): creates the path and its parent
makedirs(ds, path) == ds \cup {TEMP, path}

\* ---- the try/finally of the task ----------------------------------------
\* where control goes when the try body is left with exception e ("none":
\* the body completed): the finally clause runs cleanup on every path
OnExitNoFinally(e) == IF e = "none" THEN "cleanup" ELSE "done"
OnExit(e) == "cleanup"

Raise(e) == /\ pending' = e
            /\ pc' = OnExit(e)

\* the frames of the retry helper are gone: its locals no longer exist
Unwound == /\ rowArg' = 0 /\ count' = 0 /\ depth' = 0 /\ clicks' = 0
           /\ rejects' = 0 /\ helper' = "idle"

\* ---- get_orders ---------------------------------------------------------
\* response.raise_for_status(): raises for 4xx and 5xx
raise_for_statusMissing(status) == FALSE
raise_for_status(status) == status >= 400

\* ---- click_order_button_with_retry --------------------------------------
\* the guard "if count > MAX_RETRIES"
ExhaustedInverted(c) == c < MAX_RETRIES
Exhausted(c) == c > MAX_RETRIES

\* the recursive call click_order_button_with_retry(count + 1): the single
\* positional argument binds to row, and count takes its default 0
RecursiveCallArgs(r, c) == [row |-> c + 1, count |-> 0]

\* the danger alert is visible after the clicks-th submit of the order
AlertVisible(k, r) == r = Always \/ k <= r

\* ---- archive_receipts ---------------------------------------------------
ArchiveFolder == RECEIPTS
\* include="*.pdf"
ArchiveInclude(f) == f.ext = "pdf"
\* folder="temp/receipts", recursive=True: the matching files of the folder
ArchiveEntries(fs) == {f \in fs : IsUnder(f.dir, ArchiveFolder) /\ ArchiveInclude(f)}

\* ---- cleanup ------------------------------------------------------------
\* "except Exception": a failure of rmtree is never raised out of cleanup
CleanupRaisesUncaught(failed) == failed
CleanupRaises(failed) == FALSE

\* shutil.rmtree("temp")
RmtreeTargetReceipts == RECEIPTS
RmtreeTarget == TEMP

\* what a failing rmtree may leave behind: rmtree deletes one child of the
\* root after the other and raises at the first error, so the root stays and
\* with it none, one or both of the subtrees that existed
Leftovers(ds, fs) == {p \in (SUBSET ds) \X (SUBSET fs) :
                        /\ TEMP \in p[1]
                        /\ p[2] = {f \in fs : f.dir \in p[1]}}

Init ==
    /\ pc = "idle"
    /\ runs = 0
    /\ http_status = 0
    /\ orders = 0
    /\ i = 0
    /\ pending = "none"
    /\ outcome = "none"
    /\ dirs = {}
    /\ files = {}
    /\ zip = [exists |-> FALSE, entries |-> {}]
    /\ rowArg = 0
    /\ count = 0
    /\ depth = 0
    /\ clicks = 0
    /\ rejects = 0
    /\ helper = "idle"
    /\ order_number = NoOrder
    /\ browserUsed = FALSE
    /\ archiveCalled = FALSE
    /\ archived = FALSE
    /\ cleanupRuns = 0
    /\ rmResult = "none"
    /\ logged = {}
    /\ startedClean = TRUE
    /\ succeeded = 0
    /\ idsRead = {}

\* the task runner invokes order_robots_from_RobotSpareBin in a new process
order_robots_from_RobotSpareBin ==
    /\ pc \in {"idle", "done"}
    /\ runs < MaxRuns
    /\ runs' = runs + 1
    /\ pc' = "get_orders"
    /\ http_status' = 0
    /\ orders' = 0
    /\ i' = 0
    /\ pending' = "none"
    /\ outcome' = "none"
    /\ rowArg' = 0 /\ count' = 0 /\ depth' = 0 /\ clicks' = 0
    /\ rejects' = 0 /\ helper' = "idle"
    /\ order_number' = NoOrder
    /\ browserUsed' = FALSE
    /\ archiveCalled' = FALSE
    /\ archived' = FALSE
    /\ cleanupRuns' = 0
    /\ rmResult' = "none"
    /\ logged' = {}
    /\ startedClean' = (TEMP \notin dirs)
    /\ succeeded' = 0
    /\ idsRead' = {}
    /\ zip' = [exists |-> FALSE, entries |-> {}]
    /\ UNCHANGED <<dirs, files>>

\* requests.get, raise_for_status, pd.read_csv: an error status raises; any
\* other response body is parsed, which raises or gives a DataFrame of n rows
get_orders ==
    /\ pc = "get_orders"
    /\ \E status \in HttpStatuses :
         /\ http_status' = status
         /\ IF raise_for_status(status)
            THEN /\ Raise("HTTPError")
                 /\ UNCHANGED orders
            ELSE \/ /\ \E n \in 0..MaxOrders : orders' = n
                    /\ pc' = "loop"
                    /\ UNCHANGED pending
                 \/ /\ Raise("ParserError")
                    /\ UNCHANGED orders
    /\ UNCHANGED <<runs, i, outcome, dirs, files, zip, order_number, logged>>
    /\ UNCHANGED helperVars
    /\ UNCHANGED runVars

\* for _, row in orders.iterrows(): the next row, and the two makedirs that
\* open the loop body; after the last row the try body goes on to archive.
\* The locals of the previous iteration are gone.
NextRow ==
    /\ pc = "loop"
    /\ IF i < orders
       THEN /\ i' = i + 1
            /\ dirs' = makedirs(makedirs(dirs, RECEIPTS), IMAGES)
            /\ pc' = "goto"
       ELSE /\ pc' = "archive"
            /\ UNCHANGED <<i, dirs>>
    /\ order_number' = NoOrder
    /\ Unwound
    /\ UNCHANGED <<runs, http_status, orders, pending, outcome, files, zip,
                   logged>>
    /\ UNCHANGED runVars

\* browser.goto(ORDER_URL); close_annoying_modal()
close_annoying_modal ==
    /\ pc = "goto"
    /\ browserUsed' = TRUE
    /\ pc' = "fill"
    /\ UNCHANGED <<runs, http_status, orders, i, pending, outcome, dirs, files, zip,
                   order_number, logged>>
    /\ UNCHANGED helperVars
    /\ UNCHANGED <<archiveCalled, archived, cleanupRuns, rmResult,
                   startedClean, succeeded, idsRead>>

\* fill_the_form_for_one_order up to the call of the retry helper with
\* (row, count = 0); the shop decides how it will answer this order
fill_the_form_for_one_order ==
    /\ pc = "fill"
    /\ \E r \in (0..MaxRejects) \cup {Always} : rejects' = r
    /\ rowArg' = i
    /\ count' = 0
    /\ depth' = 1
    /\ clicks' = 0
    /\ helper' = "running"
    /\ pc' = "click"
    /\ UNCHANGED <<runs, http_status, orders, i, pending, outcome, dirs, files, zip,
                   order_number, logged>>
    /\ UNCHANGED runVars

\* page.click("//button[@id='order']")
click_order_button ==
    /\ pc = "click"
    /\ clicks' = clicks + 1
    /\ pc' = "check"
    /\ UNCHANGED <<runs, http_status, orders, i, pending, outcome, dirs, files, zip,
                   order_number, logged>>
    /\ UNCHANGED <<rowArg, count, depth, rejects, helper>>
    /\ UNCHANGED runVars

\* the rest of click_order_button_with_retry after the click
click_order_button_with_retry ==
    /\ pc = "check"
    /\ IF Exhausted(count)
       THEN /\ logged' = logged \cup {"retry_error"}
            /\ helper' = "returned"
            /\ pc' = "badge"
            /\ UNCHANGED <<pending, rowArg, count, depth>>
       ELSE IF AlertVisible(clicks, rejects)
       THEN IF depth + 1 > RecursionLimit
            THEN /\ Raise("RecursionError")
                 /\ helper' = "raised"
                 /\ UNCHANGED <<logged, rowArg, count, depth>>
            ELSE /\ rowArg' = RecursiveCallArgs(rowArg, count).row
                 /\ count' = RecursiveCallArgs(rowArg, count).count
                 /\ depth' = depth + 1
                 /\ pc' = "click"
                 /\ UNCHANGED <<pending, logged, helper>>
       ELSE /\ helper' = "returned"
            /\ pc' = "badge"
            /\ UNCHANGED <<pending, logged, rowArg, count, depth>>
    /\ UNCHANGED <<runs, http_status, orders, i, outcome, dirs, files, zip, order_number,
                   clicks, rejects>>
    /\ UNCHANGED runVars

\* order_number = page.text_content(badge): the badge is there when the shop
\* accepted the submit; while the alert is shown there is no badge and the
\* locator times out
read_badge ==
    /\ pc = "badge"
    /\ IF AlertVisible(clicks, rejects)
       THEN /\ Raise("TimeoutError")
            /\ UNCHANGED <<order_number, succeeded, idsRead>>
       ELSE /\ \E id \in OrderIds :
                 /\ order_number' = id
                 /\ idsRead' = idsRead \cup {id}
            /\ succeeded' = succeeded + 1
            /\ pc' = "screenshot"
            /\ UNCHANGED pending
    /\ UNCHANGED <<runs, http_status, orders, i, outcome, dirs, files, zip, logged>>
    /\ UNCHANGED helperVars
    /\ UNCHANGED <<browserUsed, archiveCalled, archived, cleanupRuns,
                   rmResult, startedClean>>

save_receipt_as_image ==
    /\ pc = "screenshot"
    /\ files' = files \cup {ImagePath(order_number)}
    /\ pc' = "html_to_pdf"
    /\ UNCHANGED <<runs, http_status, orders, i, pending, outcome, dirs, zip,
                   order_number, logged>>
    /\ UNCHANGED helperVars
    /\ UNCHANGED runVars

\* store_receipt_as_pdf, first half: pdf.html_to_pdf(receipt_html, pdf_path)
html_to_pdf ==
    /\ pc = "html_to_pdf"
    /\ files' = files \cup {PdfPath(order_number)}
    /\ pc' = "watermark"
    /\ UNCHANGED <<runs, http_status, orders, i, pending, outcome, dirs, zip,
                   order_number, logged>>
    /\ UNCHANGED helperVars
    /\ UNCHANGED runVars

\* store_receipt_as_pdf, second half: pdf.add_watermark_image_to_pdf(...)
\* and the log record
add_watermark_image_to_pdf ==
    /\ pc = "watermark"
    /\ files' = files \cup {PdfPathWithRobotImage(order_number)}
    /\ logged' = logged \cup {"receipt_saved"}
    /\ pc' = "close"
    /\ UNCHANGED <<runs, http_status, orders, i, pending, outcome, dirs, zip,
                   order_number>>
    /\ UNCHANGED helperVars
    /\ UNCHANGED runVars

\* browser.page().close(), then back to the loop header
page_close ==
    /\ pc = "close"
    /\ pc' = "loop"
    /\ UNCHANGED <<runs, http_status, orders, i, pending, outcome, dirs, files, zip,
                   order_number, logged>>
    /\ UNCHANGED helperVars
    /\ UNCHANGED runVars

\* any browser call of the loop body may raise (navigation or locator
\* timeout); the exception leaves fill_the_form_and_store_receipts and
\* unwinds its frames
BrowserStages == {"goto", "fill", "click", "check", "badge", "screenshot",
                  "close"}

BrowserError ==
    /\ pc \in BrowserStages
    /\ Raise("BrowserError")
    /\ browserUsed' = TRUE
    /\ order_number' = NoOrder
    /\ Unwound
    /\ UNCHANGED <<runs, http_status, orders, i, outcome, dirs, files, zip,
                   logged>>
    /\ UNCHANGED <<archiveCalled, archived, cleanupRuns, rmResult,
                   startedClean, succeeded, idsRead>>

\* either PDF call may raise
PdfError ==
    /\ pc \in {"html_to_pdf", "watermark"}
    /\ Raise("PdfError")
    /\ order_number' = NoOrder
    /\ Unwound
    /\ UNCHANGED <<runs, http_status, orders, i, outcome, dirs, files, zip,
                   logged>>
    /\ UNCHANGED runVars

\* Archive().archive_folder_with_zip(folder, archive_name, recursive=True,
\* include="*.pdf"): raises when the folder does not exist or holds no
\* matching file, and may fail on I/O; otherwise writes the archive
archive_receipts ==
    /\ pc = "archive"
    /\ archiveCalled' = TRUE
    /\ \E io_ok \in BOOLEAN :
         IF io_ok /\ ArchiveFolder \in dirs /\ ArchiveEntries(files) # {}
         THEN /\ zip' = [exists |-> TRUE, entries |-> ArchiveEntries(files)]
              /\ logged' = logged \cup {"archived"}
              /\ archived' = TRUE
              /\ pc' = OnExit("none")
              /\ UNCHANGED pending
         ELSE /\ Raise("ArchiveError")
              /\ UNCHANGED <<zip, logged, archived>>
    /\ UNCHANGED <<runs, http_status, orders, i, outcome, dirs, files, order_number>>
    /\ UNCHANGED helperVars
    /\ UNCHANGED <<browserUsed, cleanupRuns, rmResult, startedClean,
                   succeeded, idsRead>>

\* the file-system and log effect of one call of cleanup(); res is what
\* happened to rmtree
CleanupEffect(res) ==
    IF TEMP \notin dirs
    THEN /\ res = "skipped"
         /\ UNCHANGED <<dirs, files, logged>>
    ELSE \/ /\ res = "ok"
            /\ dirs' = {d \in dirs : ~IsUnder(d, RmtreeTarget)}
            /\ files' = {f \in files : ~IsUnder(f.dir, RmtreeTarget)}
            /\ logged' = logged \cup {"cleanup_info"}
         \/ /\ res = "failed"
            /\ \E p \in Leftovers(dirs, files) :
                 /\ dirs' = p[1]
                 /\ files' = p[2]
            /\ logged' = logged \cup {"cleanup_error"}

\* the finally clause: cleanup(), then the task ends with the exception of
\* the try body, if any
cleanup ==
    /\ pc = "cleanup"
    /\ \E res \in {"skipped", "ok", "failed"} :
         /\ CleanupEffect(res)
         /\ rmResult' = res
         /\ outcome' = IF CleanupRaises(res = "failed") THEN "OSError"
                       ELSE pending
    /\ cleanupRuns' = cleanupRuns + 1
    /\ pc' = "done"
    /\ order_number' = NoOrder
    /\ Unwound
    /\ UNCHANGED <<runs, http_status, orders, i, pending, zip>>
    /\ UNCHANGED <<browserUsed, archiveCalled, archived, startedClean,
                   succeeded, idsRead>>

\* if __name__ == "__main__": cleanup()  -- the module run as a script, in a
\* process of its own
main_cleanup ==
    /\ pc \in {"idle", "done"}
    /\ TEMP \in dirs
    /\ \E res \in {"ok", "failed"} : CleanupEffect(res)
    /\ pc' = "idle"
    /\ UNCHANGED <<runs, http_status, orders, i, pending, outcome, zip, order_number>>
    /\ UNCHANGED helperVars
    /\ UNCHANGED runVars

Next ==
    \/ order_robots_from_RobotSpareBin
    \/ get_orders
    \/ NextRow
    \/ close_annoying_modal
    \/ fill_the_form_for_one_order
    \/ click_order_button
    \/ click_order_button_with_retry
    \/ read_badge
    \/ save_receipt_as_image
    \/ html_to_pdf
    \/ add_watermark_image_to_pdf
    \/ page_close
    \/ BrowserError
    \/ PdfError
    \/ archive_receipts
    \/ cleanup
    \/ main_cleanup

Spec == Init /\ [][Next]_vars

TypeOK ==
    /\ pc \in {"idle", "get_orders", "loop", "goto", "fill", "click", "check",
               "badge", "screenshot", "html_to_pdf", "watermark", "close",
               "archive", "cleanup", "done"}
    /\ runs \in 0..MaxRuns
    /\ http_status \in HttpStatuses \cup {0}
    /\ orders \in 0..MaxOrders
    /\ i \in 0..orders
    /\ dirs \subseteq TempDirs
    /\ files \subseteq AllFiles
    /\ zip.entries \subseteq AllFiles
    /\ clicks \in 0..RecursionLimit
    /\ depth \in 0..RecursionLimit
    /\ cleanupRuns \in 0..1
    /\ succeeded \in 0..orders

\* ---- properties ---------------------------------------------------------
Images == {f \in files : f.dir = IMAGES}
Pdfs == {f \in files : f.dir = RECEIPTS}

\* the retry helper has ended for an order the shop rejects on every submit
AlwaysRejectedEnded == helper \in {"returned", "raised"} /\ rejects = Always

\* C1: when the alert is visible after every submit click of an order, the
\* helper makes exactly MAX_RETRIES+1 clicks, logs an error and returns
\* normally.
C1_ExhaustionStops ==
    AlwaysRejectedEnded =>
        /\ clicks = MAX_RETRIES + 1
        /\ "retry_error" \in logged
        /\ helper = "returned"

\* C2 as stated: after every run, whatever stage failed (the deletion
\* included), temp does not exist.
C2_TempGoneAlways == pc = "done" => TEMP \notin dirs

\* C2 amended: after every run whose deletion of the temp tree did not fail,
\* temp does not exist, whether the try body succeeded or failed.
C2_TempGoneUnlessRmtreeFailed ==
    (pc = "done" /\ rmResult # "failed") => TEMP \notin dirs

C2_Witness ==
    /\ pc = "done"
    /\ rmResult = "ok"
    /\ pending \in {"BrowserError", "PdfError", "ArchiveError"}
    /\ TEMP \notin dirs

\* C3: an order whose retries are exhausted is abandoned: no identifier is
\* read and no screenshot or PDF is made for it, and the run goes on with the
\* next row instead of failing.
C3_AbandonedAndProceeds ==
    AlwaysRejectedEnded =>
        /\ order_number = NoOrder
        /\ pc \notin {"screenshot", "html_to_pdf", "watermark"}
        /\ pending \notin {"RecursionError", "TimeoutError"}
        /\ (pc = "done" /\ pending = "none" => i = orders)

\* C4 as stated: when the archive step starts there is exactly one receipt
\* PDF and one image per row whose submission succeeded.
C4_OnePdfOneImagePerOrder ==
    pc = "archive" =>
        /\ Cardinality(Images) = succeeded
        /\ Cardinality(Pdfs) = succeeded

\* C4 amended: when the archive step starts in a run that began without a
\* temp directory, every row was submitted successfully and temp holds, for
\* each distinct identifier read, one image and two PDFs (plain and with the
\* robot image) and nothing else; with pairwise distinct identifiers that is
\* one image and two PDFs per row.
C4_FilesPerIdentifier ==
    (pc = "archive" /\ startedClean) =>
        /\ succeeded = orders
        /\ Images = {File(IMAGES, "robot", o, "png") : o \in idsRead}
        /\ Pdfs = {File(RECEIPTS, "receipt", o, "pdf") : o \in idsRead} \cup
                  {File(RECEIPTS, "receipt_with_robot_image", o, "pdf") :
                     o \in idsRead}
        /\ (Cardinality(idsRead) = succeeded =>
              /\ Cardinality(Images) = succeeded
              /\ Cardinality(Pdfs) = 2 * succeeded)

C4_Witness ==
    /\ pc = "archive"
    /\ startedClean
    /\ succeeded = 2
    /\ Cardinality(idsRead) = 2
    /\ Cardinality(Images) = 2

\* C5: cleanup runs exactly once per run and as its last step, on every exit
\* path: a finished run has called it once, a run still under way not yet.
C5_CleanupOnceAndLast ==
    /\ pc = "done" => cleanupRuns = 1
    /\ pc \notin {"done", "idle"} => cleanupRuns = 0

C5_Witness ==
    /\ pc = "done"
    /\ cleanupRuns = 1
    /\ pending = "BrowserError"
    /\ i = 2

\* the consequence claimed for a failed fetch
FetchFailureStopsRun ==
    /\ ~browserUsed
    /\ ~archiveCalled
    /\ pc \notin {"loop", "goto", "fill", "click", "check", "badge",
                  "screenshot", "html_to_pdf", "watermark", "close",
                  "archive"}
    /\ (pc = "done" => outcome = "HTTPError")

\* C6 as stated: after any non-2xx response the run fails with the fetch
\* error, with no browser interaction and no archive step.
C6_Non2xxStopsRun ==
    (http_status # 0 /\ http_status \notin 200..299) => FetchFailureStopsRun

\* C6 amended: after a 4xx or 5xx response the run fails with the fetch
\* error, with no browser interaction and no archive step.
C6_ErrorStatusStopsRun == http_status >= 400 => FetchFailureStopsRun

C6_Witness ==
    /\ pc = "done"
    /\ http_status = 500
    /\ outcome = "HTTPError"
    /\ ~browserUsed

\* C7: when the alert is visible after clicks 1..3 and absent after click 4,
\* the helper makes exactly 4 clicks, logs no error and returns, and the next
\* step reads the order identifier from the badge.
C7_RetrySucceedsOnFourth ==
    (helper \in {"returned", "raised"} /\ rejects = MAX_RETRIES) =>
        /\ clicks = MAX_RETRIES + 1
        /\ "retry_error" \notin logged
        /\ helper = "returned"
        /\ (order_number = NoOrder /\ pending = "none" => pc = "badge")

C7_Witness ==
    /\ helper = "returned"
    /\ rejects = MAX_RETRIES
    /\ clicks = MAX_RETRIES + 1
    /\ order_number # NoOrder

C9_CleanupFailureSwallowed ==
    pc = "done" =>
        /\ outcome = pending
        /\ (rmResult = "failed" => "cleanup_error" \in logged)

C9_Witness ==
    /\ pc = "done"
    /\ rmResult = "failed"
    /\ outcome = "ArchiveError"
    /\ TEMP \in dirs

\* C10: whenever archive_receipts is invoked in a run that started without
\* a temp directory, the folder temp/receipts exists.
C10_ReceiptsFolderExists ==
    (pc = "archive" /\ startedClean) => RECEIPTS \in dirs

====
